---- MODULE Spec2Model ----
(***************************************************************************)
(* london-cycles-db: the polling script (dataset.py), the resampling and   *)
(* daylight-gradient pipeline of the animation notebook (animate.py), and  *)
(* the publishing script (kaggle_upload.py), as state machines.            *)
(*                                                                         *)
(* Time is counted in minutes from an arbitrary local midnight unless a    *)
(* definition says otherwise.  Numeric dataframe cells are exact rationals *)
(* <<n, d>> in lowest terms with d > 0; <<0, 0>> is NaN.                   *)
(***************************************************************************)
EXTENDS Integers, Sequences, FiniteSets, TLC

VARIABLES
    \* ---- animate.py, interpolate_bikepoint on one station's subset ----
    dataframe,          \* the argument of interpolate_bikepoint: a sequence of rows
    resampled,          \* its result: a sequence of rows (<<>> before the call)
    rpc,                \* "idle" | "call" | "resampled" | "returned"
    \* ---- animate.py, get_colors_by_time on one instant ----
    selected_time,      \* the instant the gradient is asked for
    sun_events,         \* dawn, sunrise, noon, sunset, dusk of its date
    today_gradients,    \* the outcome: the exception raised, or the map
    cpc,                \* "idle" | "call" | "returned"
    \* ---- dataset.py ----
    csv_exists,         \* csv_file.exists()
    csv_rows,           \* the rows of the daily file
    information_file,   \* whether stations-<day>.csv has been written
    first_file_of_the_day,
    bike_points,        \* the answer of bike_point.all()
    execution_time,     \* the run: 1, 2, ... on the same UTC day
    dpc,                \* "idle" | "start" | "opened" | "fetched" | "written" | "done" | "failed"
    \* ---- animate.py, from the resampling loop on ----
    data_to_plot,       \* the rows of all stations; after the loop, the concatenation
    all_bikepoints,     \* the station identifiers the loop goes through
    resampled_frames,   \* the frames appended so far
    sun_over_london,    \* the solar events of the day of the data
    times,              \* the instants of the frames
    step,               \* frames drawn so far
    color,              \* the map colour of the last frame drawn
    raised,             \* the exception that ended the notebook, or "none"
    apc,                \* "idle" | "resample" | "frames" | "done" | "raised"
    \* ---- kaggle_upload.py ----
    data_dir,           \* the names of the csv files in data/
    today,              \* date.today(), <<year, month, day>>
    files,              \* sorted(glob("data/*.csv")), <<>> before the loop
    file_index,         \* the position in files of the next iteration
    resources,          \* the paths of the resources built so far
    dates,              \* the dates of the files listed so far
    dataset_metadata,   \* the resources written to data/dataset-metadata.json
    update_message,     \* <<min(dates), max(dates)>> of the version created
    upc                 \* "idle" | "start" | "loop" | "written" | "published" |
                        \* "raised"

regVars == <<dataframe, resampled, rpc>>
colorVars == <<selected_time, sun_events, today_gradients, cpc>>

datasetVars == <<csv_exists, csv_rows, information_file, first_file_of_the_day, bike_points,
                 execution_time, dpc>>

animateVars == <<data_to_plot, all_bikepoints, resampled_frames, sun_over_london, times, step,
                 color, raised, apc>>

uploadVars == <<data_dir, today, files, file_index, resources, dates, dataset_metadata,
                update_message, upc>>

\* the state of the other scripts and calls, which a step leaves alone
notReg == <<colorVars, datasetVars, animateVars, uploadVars>>
notColors == <<regVars, datasetVars, animateVars, uploadVars>>
notDataset == <<regVars, colorVars, animateVars, uploadVars>>
notAnimate == <<regVars, colorVars, datasetVars, uploadVars>>
notUpload == <<regVars, colorVars, datasetVars, animateVars>>

vars == <<dataframe, resampled, rpc, selected_time, sun_events, today_gradients, cpc,
          csv_exists, csv_rows, information_file, first_file_of_the_day, bike_points,
          execution_time, dpc, data_to_plot, all_bikepoints, resampled_frames,
          sun_over_london, times, step, color, raised, apc, data_dir, today, files,
          file_index, resources, dates, dataset_metadata, update_message, upc>>

RegIdle == dataframe = <<>> /\ resampled = <<>> /\ rpc = "idle"
UploadIdle ==
    /\ data_dir = {}
    /\ today = <<>>
    /\ files = <<>>
    /\ file_index = 1
    /\ resources = <<>>
    /\ dates = <<>>
    /\ dataset_metadata = <<>>
    /\ update_message = <<>>
    /\ upc = "idle"
ColorsIdle ==
    /\ selected_time = 0
    /\ sun_events = <<>>
    /\ today_gradients = [raised |-> "none", map |-> <<>>]
    /\ cpc = "idle"
DatasetIdle ==
    /\ csv_exists = FALSE
    /\ csv_rows = <<>>
    /\ information_file = FALSE
    /\ first_file_of_the_day = FALSE
    /\ bike_points = <<>>
    /\ execution_time = 0
    /\ dpc = "idle"
AnimateIdle ==
    /\ data_to_plot = <<>>
    /\ all_bikepoints = <<>>
    /\ resampled_frames = <<>>
    /\ sun_over_london = <<>>
    /\ times = <<>>
    /\ step = 0
    /\ color = 0
    /\ raised = "none"
    /\ apc = "idle"

----------------------------------------------------------------------------
(* Bounds of the model *)

MaxObs   == 3       \* raw observations of one station
MaxSlot  == 3       \* raw observations fall on slots 0 .. MaxSlot
TicksPerSecond == 2 \* resolution of the solar events
MaxJitter == 2      \* a solar event falls 0 .. MaxJitter ticks after a whole minute
MaxPlaces == 2      \* places in an answer of the API
MaxRuns == 2        \* runs of dataset.py on one day
MaxFiles == 4       \* csv files in data/ when the upload starts

(* Program constants *)

Cadence == 15       \* "15min"

----------------------------------------------------------------------------
(* Exact arithmetic on dataframe cells *)

NaN == <<0, 0>>

IsNaN(x) == x[2] = 0

Abs(i) == IF i < 0 THEN -i ELSE i

RECURSIVE GCD(_, _)
GCD(a, b) == IF b = 0 THEN a ELSE GCD(b, a % b)

\* n / d as a cell; division by zero gives NaN (0/0) -- see Proportion
Rat(n, d) ==
    IF d = 0 THEN NaN
    ELSE LET g == GCD(Abs(n), Abs(d))
             s == IF d < 0 THEN -1 ELSE 1
         IN  <<(s * n) \div g, (s * d) \div g>>

Whole(i) == <<i, 1>>

RAdd(x, y) == IF IsNaN(x) \/ IsNaN(y) THEN NaN
              ELSE Rat(x[1] * y[2] + y[1] * x[2], x[2] * y[2])
RSub(x, y) == IF IsNaN(x) \/ IsNaN(y) THEN NaN
              ELSE Rat(x[1] * y[2] - y[1] * x[2], x[2] * y[2])
RScale(x, k, n) == IF IsNaN(x) THEN NaN ELSE Rat(x[1] * k, x[2] * n)   \* x * k / n
RLe(x, y) == x[1] * y[2] <= y[1] * x[2]
RLt(x, y) == x[1] * y[2] < y[1] * x[2]

----------------------------------------------------------------------------
(* animate.py: the transformed columns *)

\* all_data["query_time"] ... .dt.floor("15min")
FloorTo15(t) == (t \div Cadence) * Cadence

\* all_data["proportion"] = (docks - empty_docks) / docks
Proportion(docks, empty_docks) == Rat(docks - empty_docks, docks)

\* the numeric columns resample().median() and interpolate() work on
NumericFields == {"bikes", "empty_docks", "docks", "proportion"}

\* One row of data_to_plot after the transformation of lines 39-42.
Row(t, place, bikes, empty, docks) ==
    [query_time |-> FloorTo15(t), place_id |-> place, bikes |-> Whole(bikes),
     empty_docks |-> Whole(empty), docks |-> Whole(docks),
     proportion |-> Proportion(docks, empty)]

----------------------------------------------------------------------------
(* animate.py: interpolate_bikepoint *)

IntMin(S) == CHOOSE x \in S : \A y \in S : x <= y
IntMax(S) == CHOOSE x \in S : \A y \in S : y <= x

\* sequence s without its element at position i
Without(s, i) == SubSeq(s, 1, i - 1) \o SubSeq(s, i + 1, Len(s))

\* the cells of s in nondecreasing order
RECURSIVE SortCells(_)
SortCells(s) ==
    IF s = <<>> THEN <<>>
    ELSE LET i == CHOOSE i \in DOMAIN s : \A j \in DOMAIN s : RLe(s[i], s[j])
         IN  <<s[i]>> \o SortCells(Without(s, i))

\* mutant: the first valid cell of the group in place of the median
Median_first(cells) ==
    LET v == SelectSeq(cells, LAMBDA x : ~IsNaN(x))
    IN  IF v = <<>> THEN NaN ELSE v[1]

\* Series.median(): NaN cells are skipped; NaN for an empty group
Median(cells) ==
    LET v == SelectSeq(cells, LAMBDA x : ~IsNaN(x))
        o == SortCells(v)
        n == Len(o)
    IN  IF n = 0 THEN NaN
        ELSE IF n % 2 = 1 THEN o[(n + 1) \div 2]
        ELSE RScale(RAdd(o[n \div 2], o[n \div 2 + 1]), 1, 2)

\* the cells of one column of the rows of df whose query_time lies in [lo, hi)
RECURSIVE ColumnIn(_, _, _, _)
ColumnIn(df, field, lo, hi) ==
    IF df = <<>> THEN <<>>
    ELSE (IF lo <= Head(df).query_time /\ Head(df).query_time < hi
          THEN <<Head(df)[field]>> ELSE <<>>) \o ColumnIn(Tail(df), field, lo, hi)

Times(df) == {df[i].query_time : i \in DOMAIN df}

\* one bin of the resampling: the per-column median of the rows in [lo, lo + 15)
Bin(df, lo) ==
    [query_time  |-> lo,
     bikes       |-> Median(ColumnIn(df, "bikes", lo, lo + Cadence)),
     empty_docks |-> Median(ColumnIn(df, "empty_docks", lo, lo + Cadence)),
     docks       |-> Median(ColumnIn(df, "docks", lo, lo + Cadence)),
     proportion  |-> Median(ColumnIn(df, "proportion", lo, lo + Cadence))]

\* the integers of S in increasing order
RECURSIVE Ascending(_)
Ascending(S) == IF S = {} THEN <<>> ELSE <<IntMin(S)>> \o Ascending(S \ {IntMin(S)})

\* mutant: groupby("query_time").median() in place of the resampling, which
\* leaves out the bins that hold no row
resample_median_groupby(df) ==
    LET ts == Ascending({FloorTo15(t) : t \in Times(df)})
    IN  [k \in DOMAIN ts |-> Bin(df, ts[k])]

\* mutant: the index runs one bin past the bin of the latest row
resample_median_padded(df) ==
    IF df = <<>> THEN <<>>
    ELSE LET first == FloorTo15(IntMin(Times(df)))
             last  == FloorTo15(IntMax(Times(df))) + Cadence
             n     == (last - first) \div Cadence + 1
         IN  [k \in 1 .. n |-> Bin(df, first + (k - 1) * Cadence)]

\* set_index("query_time").resample("15min").median(): one row per 15-minute
\* bin from the bin of the earliest row to the bin of the latest row; the
\* non-numeric column place_id is not carried.
resample_median(df) ==
    IF df = <<>> THEN <<>>
    ELSE LET first == FloorTo15(IntMin(Times(df)))
             last  == FloorTo15(IntMax(Times(df)))
             n     == (last - first) \div Cadence + 1
         IN  [k \in 1 .. n |-> Bin(df, first + (k - 1) * Cadence)]

\* mutant: the last valid cell is carried forward instead of blending
Blend_ffill(a, b, j, n) == a

\* mutant: the step is not divided by the number of steps
Blend_undivided(a, b, j, n) == RAdd(a, RScale(RSub(b, a), j, 1))

\* the linear blend a + j * (b - a) / n
Blend(a, b, j, n) == RAdd(a, RScale(RSub(b, a), j, n))

\* DataFrame.interpolate() on one column (method linear, forward): the rows are
\* taken as equally spaced; a NaN between two valid cells is blended, a NaN after
\* the last valid cell repeats it, a NaN before the first valid cell stays NaN.
interpolate_column(col) ==
    [i \in DOMAIN col |->
        IF ~IsNaN(col[i]) THEN col[i]
        ELSE LET before == {p \in 1 .. i - 1 : ~IsNaN(col[p])}
                 after  == {q \in i + 1 .. Len(col) : ~IsNaN(col[q])}
             IN  IF before = {} THEN NaN
                 ELSE IF after = {} THEN col[IntMax(before)]
                 ELSE LET p == IntMax(before)
                          q == IntMin(after)
                      IN  Blend(col[p], col[q], i - p, q - p)]

interpolate(df) ==
    LET b == interpolate_column([i \in DOMAIN df |-> df[i].bikes])
        e == interpolate_column([i \in DOMAIN df |-> df[i].empty_docks])
        d == interpolate_column([i \in DOMAIN df |-> df[i].docks])
        p == interpolate_column([i \in DOMAIN df |-> df[i].proportion])
    IN  [i \in DOMAIN df |->
            [query_time |-> df[i].query_time, bikes |-> b[i], empty_docks |-> e[i],
             docks |-> d[i], proportion |-> p[i]]]

\* def interpolate_bikepoint(dataframe); reset_index() keeps the rows in order
interpolate_bikepoint(df) == interpolate(resample_median(df))

----------------------------------------------------------------------------
(* Specification of interpolate_bikepoint on one station's rows *)

\* <<bikes, empty_docks, docks>> of a raw observation: the readings of the two
\* scenarios of the specification, a small station, and an upstream error
\* (more empty docks than docks, a ratio outside [0, 1])
Readings == {<<5, 5, 10>>, <<7, 3, 10>>, <<5, 0, 5>>, <<1, 1, 3>>, <<0, 3, 2>>}

RawRows == {Row(k * Cadence, "BikePoints_1", r[1], r[2], r[3]) :
                k \in 0 .. MaxSlot, r \in Readings}

RECURSIVE SeqsUpTo(_, _)
SeqsUpTo(S, n) ==
    IF n = 0 THEN {<<>>}
    ELSE LET shorter == SeqsUpTo(S, n - 1)
         IN  shorter \cup {Append(s, x) : s \in {t \in shorter : Len(t) = n - 1}, x \in S}

RegInit ==
    /\ dataframe \in SeqsUpTo(RawRows, MaxObs)
    /\ resampled = <<>>
    /\ rpc = "call"
    /\ ColorsIdle
    /\ DatasetIdle
    /\ AnimateIdle
    /\ UploadIdle

\* lines 125-127: resampled = dataframe.copy().set_index(...).resample().median()
Resample ==
    /\ rpc = "call"
    /\ resampled' = resample_median(dataframe)
    /\ rpc' = "resampled"
    /\ UNCHANGED <<dataframe, notReg>>

\* lines 128-129: resampled = resampled.interpolate(); return resampled.reset_index()
Interpolate ==
    /\ rpc = "resampled"
    /\ resampled' = interpolate(resampled)
    /\ rpc' = "returned"
    /\ UNCHANGED <<dataframe, notReg>>

RegNext == Resample \/ Interpolate

SpecReg == RegInit /\ [][RegNext]_vars

----------------------------------------------------------------------------
(* animate.py: get_sun_intervals and get_colors_by_time                    *)
(*                                                                         *)
(* Instants handed to get_colors_by_time and the keys of its result are    *)
(* minutes; the solar events of a date are ticks (TicksPerSecond to the    *)
(* second, standing for the microseconds of a datetime) after the start of *)
(* that date.  A colour is its grey level on the 0 .. 255 scale, a cell;   *)
(* the palette is grey but for one unit of blue in "darkness".             *)

MinutesPerDay == 1440       \* datetime.timedelta(days=1)
SecondsPerMinute == 60      \* (t2 - t1).seconds / 60
SampleEnd == 1441           \* range(0, 1441, 15)
SampleStep == 15            \* range(0, 1441, 15)

darkness == 93              \* Color("#5D5D5E")
night    == 127             \* Color("#7f7f7f")
mid      == 162             \* Color("#a2a2a2")
noon     == 199             \* Color("#c7c7c7")

TicksPerDay == MinutesPerDay * SecondsPerMinute * TicksPerSecond

\* get_sun_intervals(date): the start of the date, the five solar events that
\* astral computes for it, and the start of the next date
get_sun_intervals(events) == <<0>> \o events \o <<TicksPerDay>>

\* timedelta.seconds: the whole seconds of the difference within its day
TimedeltaSeconds(t1, t2) == ((t2 - t1) \div TicksPerSecond) % (MinutesPerDay * SecondsPerMinute)

\* math.ceil(n / d) for d > 0
Ceil(n, d) == (n + d - 1) \div d

\* mutant: the scale runs from end to begin
range_to_reversed(begin, end, steps) ==
    [k \in 1 .. steps |->
        IF steps = 1 THEN <<end, 1>>
        ELSE <<end * (steps - 1) + (begin - end) * (k - 1), steps - 1>>]

\* Color.range_to(value, steps): steps colours from begin to end inclusive,
\* evenly spaced, begin + (end - begin) * (k - 1) / (steps - 1) for the k-th as
\* a fraction <<numerator, denominator>>; one step gives begin alone (fewer
\* than one raises, see get_colors_by_time)
range_to(begin, end, steps) ==
    [k \in 1 .. steps |->
        IF steps = 1 THEN <<begin, 1>>
        ELSE <<begin * (steps - 1) + (end - begin) * (k - 1), steps - 1>>]

\* Color.hex: the grey level rounded to a whole number
Hex(c) == (2 * c[1] + c[2]) \div (2 * c[2])

\* the indices range(0, 1441, 15) samples
SampleIndices == {idx \in 0 .. SampleEnd - 1 : idx % SampleStep = 0}

\* line 219: {date + timedelta(minutes=idx): colors[idx].hex for idx in
\* range(0, 1441, 15)}; colors[idx] raises IndexError past the end of colors
every_15_minutes(date, colors) ==
    IF \E idx \in SampleIndices : idx + 1 > Len(colors)
    THEN [raised |-> "IndexError", map |-> <<>>]
    ELSE [raised |-> "none",
          map |-> [key \in {date + idx : idx \in SampleIndices} |-> Hex(colors[key - date + 1])]]

\* lines 211-216: the colours of the six intervals, one per minute
ColorsOf(minutes) ==
    range_to(darkness, night, minutes[1])
      \o range_to(night, mid, minutes[2])
      \o range_to(mid, noon, minutes[3])
      \o range_to(noon, mid, minutes[4])
      \o range_to(mid, night, minutes[5])
      \o range_to(night, darkness, minutes[6])

\* get_colors_by_time(date), given the solar events astral returns for the date
\* of the instant t.  raised names the exception that ends the call, if any:
\* range_to raises ValueError when asked for fewer than one colour.
get_colors_by_time(t, events) ==
    LET date == (t \div MinutesPerDay) * MinutesPerDay
        sun_intervals == get_sun_intervals(events)
        minutes == [i \in 1 .. 6 |->
                      Ceil(TimedeltaSeconds(sun_intervals[i], sun_intervals[i + 1]),
                           SecondsPerMinute)]
    IN  IF \E i \in 1 .. 6 : minutes[i] < 1
        THEN [raised |-> "ValueError", map |-> <<>>]
        ELSE every_15_minutes(date, ColorsOf(minutes))

----------------------------------------------------------------------------
(* Specification of get_colors_by_time on one date *)

\* the solar events of a date, as whole minutes after its start: London at the
\* summer and the winter solstice, to the minute
SummerSolstice == <<235, 283, 782, 1282, 1330>>
WinterSolstice == <<444, 484, 718, 953, 993>>
SolarMinutes == {SummerSolstice, WinterSolstice}

\* each event falls up to MaxJitter ticks after its whole minute
SolarEvents ==
    {[i \in 1 .. 5 |-> base[i] * SecondsPerMinute * TicksPerSecond + jitter[i]] :
        base \in SolarMinutes, jitter \in [1 .. 5 -> 0 .. MaxJitter]}

\* the instants get_colors_by_time is called with: 15-minute instants of two days
CallInstants == {0, 615, MinutesPerDay + 1425}

ColorsInit ==
    /\ selected_time \in CallInstants
    /\ sun_events \in SolarEvents
    /\ today_gradients = [raised |-> "none", map |-> <<>>]
    /\ cpc = "call"
    /\ RegIdle
    /\ DatasetIdle
    /\ AnimateIdle
    /\ UploadIdle

CallGetColors ==
    /\ cpc = "call"
    /\ today_gradients' = get_colors_by_time(selected_time, sun_events)
    /\ cpc' = "returned"
    /\ UNCHANGED <<selected_time, sun_events, notColors>>

ColorsNext == CallGetColors

SpecColors == ColorsInit /\ [][ColorsNext]_vars

----------------------------------------------------------------------------
(* dataset.py: one polling run after another on the same UTC day           *)
(*                                                                         *)
(* A property of a place is [key, value]; the API carries values as text.  *)
(* place.lat and place.lon are copied into the row like place.id and are   *)
(* left out.                                                               *)

\* the values a property carries, and int(value) where int() accepts it
PropertyValues == {"3", "7", "10", "n/a"}
IsNumeric(v) == v \in {"3", "7", "10"}
ParseInt(v) == CASE v = "3" -> 3 [] v = "7" -> 7 [] v = "10" -> 10 [] OTHER -> 0

\* mutant: the first property with the key is taken, however many carry it
get_number_first(additional_properties, key) ==
    LET matches == SelectSeq(additional_properties, LAMBDA prop : prop.key = key)
    IN  IF Len(matches) = 0 \/ ~IsNumeric(matches[1].value)
        THEN [raised |-> TRUE, nb |-> 0]
        ELSE [raised |-> FALSE, nb |-> ParseInt(matches[1].value)]

\* get_number(additional_properties, key): the unpacking [nb] = [...] raises
\* unless exactly one property has the key, int(nb) raises unless it is numeric
get_number(additional_properties, key) ==
    LET matches == SelectSeq(additional_properties, LAMBDA prop : prop.key = key)
    IN  IF Len(matches) # 1 \/ ~IsNumeric(matches[1].value)
        THEN [raised |-> TRUE, nb |-> 0]
        ELSE [raised |-> FALSE, nb |-> ParseInt(matches[1].value)]

headers == [header |-> TRUE, query_time |-> 0, place_id |-> "place_id",
            bikes |-> 0, empty_docks |-> 0, docks |-> 0]

\* the tuple get_stations appends for one place
StationRow(place) ==
    [header |-> FALSE, query_time |-> execution_time, place_id |-> place.id,
     bikes |-> get_number(place.additionalProperties, "NbBikes").nb,
     empty_docks |-> get_number(place.additionalProperties, "NbEmptyDocks").nb,
     docks |-> get_number(place.additionalProperties, "NbDocks").nb]

PlaceRaises(place) ==
    \/ get_number(place.additionalProperties, "NbBikes").raised
    \/ get_number(place.additionalProperties, "NbEmptyDocks").raised
    \/ get_number(place.additionalProperties, "NbDocks").raised

\* get_stations(all_bike_points): the rows of all places, or the exception of
\* the first place whose get_number raises
get_stations(all_bike_points) ==
    IF \E i \in DOMAIN all_bike_points : PlaceRaises(all_bike_points[i])
    THEN [raised |-> TRUE, data |-> <<>>]
    ELSE [raised |-> FALSE,
          data |-> [i \in DOMAIN all_bike_points |-> StationRow(all_bike_points[i])]]

\* The additionalProperties the API returns for a place: the three counts, each
\* present once, absent, present twice, or not numeric, among other properties.
KeyShapes == {"once", "absent", "twice", "text"}

PropsOf(key, value, shape) ==
    CASE shape = "once"   -> <<[key |-> key, value |-> value]>>
      [] shape = "absent" -> <<>>
      [] shape = "twice"  -> <<[key |-> key, value |-> value], [key |-> key, value |-> value]>>
      [] shape = "text"   -> <<[key |-> key, value |-> "n/a"]>>

Place(id, shapes) ==
    [id |-> id,
     additionalProperties |->
        <<[key |-> "TerminalName", value |-> "10"]>>
          \o PropsOf("NbBikes", "3", shapes[1])
          \o PropsOf("NbEmptyDocks", "7", shapes[2])
          \o PropsOf("NbDocks", "10", shapes[3])]

\* at most one of the three counts of a place is out of shape
PlaceShapes ==
    {sh \in [1 .. 3 -> KeyShapes] : Cardinality({k \in 1 .. 3 : sh[k] # "once"}) <= 1}

PlaceIds == [i \in 1 .. MaxPlaces |-> IF i = 1 THEN "BikePoints_1"
                                      ELSE IF i = 2 THEN "BikePoints_2"
                                      ELSE IF i = 3 THEN "BikePoints_3" ELSE "BikePoints_4"]

\* the answers of bike_point.all(): 1 .. MaxPlaces places
ApiAnswers ==
    UNION {{[i \in 1 .. n |-> Place(PlaceIds[i], shapes[i])] : shapes \in [1 .. n -> PlaceShapes]} :
              n \in 1 .. MaxPlaces}

DatasetInit ==
    /\ csv_exists = FALSE
    /\ csv_rows = <<>>
    /\ information_file = FALSE
    /\ first_file_of_the_day = FALSE
    /\ bike_points = <<>>
    /\ execution_time = 1
    /\ dpc = "start"
    /\ RegIdle
    /\ ColorsIdle
    /\ AnimateIdle
    /\ UploadIdle

\* mutant: the header row is written by every run
OpenCsv_header_every_run ==
    /\ dpc = "start"
    /\ first_file_of_the_day' = ~csv_exists
    /\ csv_exists' = TRUE
    /\ csv_rows' = Append(csv_rows, headers)
    /\ dpc' = "opened"
    /\ UNCHANGED <<information_file, bike_points, execution_time, notDataset>>

\* lines 32-36: first_file_of_the_day, open(csv_file, "a"), the header row
OpenCsv ==
    /\ dpc = "start"
    /\ first_file_of_the_day' = ~csv_exists
    /\ csv_exists' = TRUE
    /\ csv_rows' = IF ~csv_exists THEN Append(csv_rows, headers) ELSE csv_rows
    /\ dpc' = "opened"
    /\ UNCHANGED <<information_file, bike_points, execution_time, notDataset>>

\* line 37: bike_point.all() answers
FetchAll ==
    /\ dpc = "opened"
    /\ \E answer \in ApiAnswers : bike_points' = answer
    /\ dpc' = "fetched"
    /\ UNCHANGED <<csv_exists, csv_rows, information_file, first_file_of_the_day, execution_time, notDataset>>

\* line 37: bike_point.all() raises; the with block closes the file
FetchRaises ==
    /\ dpc = "opened"
    /\ dpc' = "failed"
    /\ UNCHANGED <<csv_exists, csv_rows, information_file, first_file_of_the_day,
                   bike_points, execution_time, notDataset>>

\* lines 38-39: get_stations(bike_points) runs to its end before the first row
\* is written; then every row is written
WriteRows ==
    /\ dpc = "fetched"
    /\ ~get_stations(bike_points).raised
    /\ csv_rows' = csv_rows \o get_stations(bike_points).data
    /\ dpc' = "written"
    /\ UNCHANGED <<csv_exists, information_file, first_file_of_the_day, bike_points,
                   execution_time, notDataset>>

\* line 38: get_stations(bike_points) raises, which ends the script; the with
\* block closes the file
GetStationsRaises ==
    /\ dpc = "fetched"
    /\ get_stations(bike_points).raised
    /\ dpc' = "failed"
    /\ UNCHANGED <<csv_exists, csv_rows, information_file, first_file_of_the_day,
                   bike_points, execution_time, notDataset>>

\* lines 42-61: the station information file of the first run of the day
WriteInformation ==
    /\ dpc = "written"
    /\ information_file' = (information_file \/ first_file_of_the_day)
    /\ dpc' = "done"
    /\ UNCHANGED <<csv_exists, csv_rows, first_file_of_the_day, bike_points, execution_time, notDataset>>

\* the script is started again later the same day
NextRun ==
    /\ dpc \in {"done", "failed"}
    /\ execution_time < MaxRuns
    /\ execution_time' = execution_time + 1
    /\ dpc' = "start"
    /\ bike_points' = <<>>
    /\ UNCHANGED <<csv_exists, csv_rows, information_file, first_file_of_the_day, notDataset>>

DatasetNext ==
    \/ OpenCsv
    \/ FetchAll
    \/ FetchRaises
    \/ WriteRows
    \/ GetStationsRaises
    \/ WriteInformation
    \/ NextRun

SpecDataset == DatasetInit /\ [][DatasetNext]_vars

----------------------------------------------------------------------------
(* animate.py: the resampling loop over all_bikepoints, times, and the     *)
(* frames of the animation                                                 *)
(*                                                                         *)
(* A cell read from a CSV field that is not a number is Text.  Only the    *)
(* bikes column can hold one here: a docks or empty_docks field that is    *)
(* not a number already ends the script at the proportion column.          *)

Text == <<0, -1>>

IsText(x) == x[2] < 0

\* a row of data_to_plot whose bikes field is not a number
TextRow(t, place, empty, docks) ==
    [query_time |-> FloorTo15(t), place_id |-> place, bikes |-> Text,
     empty_docks |-> Whole(empty), docks |-> Whole(docks),
     proportion |-> Proportion(docks, empty)]

\* data_to_plot[data_to_plot["place_id"] == bikepoint]
Subset(df, bikepoint) == SelectSeq(df, LAMBDA row : row.place_id = bikepoint)

\* data_to_plot["place_id"].unique(): the identifiers in order of appearance
RECURSIVE unique(_)
unique(df) ==
    IF df = <<>> THEN <<>>
    ELSE LET front == unique(SubSeq(df, 1, Len(df) - 1))
             id    == df[Len(df)].place_id
         IN  IF \E i \in DOMAIN front : front[i] = id THEN front ELSE Append(front, id)

\* median() of a column that holds text is not defined
HasText(df) == \E i \in DOMAIN df : IsText(df[i].bikes)

\* resampled["place_id"] = bikepoint
WithPlace(frame, bikepoint) ==
    [i \in DOMAIN frame |->
        [query_time |-> frame[i].query_time, place_id |-> bikepoint,
         bikes |-> frame[i].bikes, empty_docks |-> frame[i].empty_docks,
         docks |-> frame[i].docks, proportion |-> frame[i].proportion]]

\* the frame without its bikes column; pd.concat fills it with NaN
WithoutBikes(frame) ==
    [i \in DOMAIN frame |->
        [query_time |-> frame[i].query_time, bikes |-> NaN,
         empty_docks |-> frame[i].empty_docks, docks |-> frame[i].docks,
         proportion |-> frame[i].proportion]]

\* pd.concat(resampled_frames)
RECURSIVE concat(_)
concat(frames) == IF frames = <<>> THEN <<>> ELSE Head(frames) \o concat(Tail(frames))

\* sorted(data_to_plot["query_time"].unique())
SortedTimes(df) == Ascending(Times(df))

\* the first slot of the loaded data: 22:00
DataStart == 22 * 60

\* the rows of the stations as loaded: 15-minute instants of one day, a fixed
\* reading, the bikes field a number or text
LoadedRows ==
    {Row(DataStart + k * Cadence, PlaceIds[p], 5, 5, 10) : k \in 0 .. MaxSlot, p \in 1 .. MaxPlaces}
      \cup {TextRow(DataStart + k * Cadence, PlaceIds[p], 5, 10) : k \in 0 .. MaxSlot, p \in 1 .. MaxPlaces}

\* the solar events of the day of the data: on whole minutes, or with dawn one
\* tick or one second late
DaylightOfData ==
    {[i \in 1 .. 5 |-> SummerSolstice[i] * SecondsPerMinute * TicksPerSecond
                          + (IF i = 1 THEN late ELSE 0)] : late \in {0, 1, TicksPerSecond}}


----------------------------------------------------------------------------
(* Specification of the notebook from the resampling loop on *)

AnimateInit ==
    /\ data_to_plot \in SeqsUpTo(LoadedRows, MaxObs) \ {<<>>}
    /\ all_bikepoints = unique(data_to_plot)
    /\ resampled_frames = <<>>
    /\ sun_over_london \in DaylightOfData
    /\ times = <<>>
    /\ step = 0
    /\ color = 0
    /\ raised = "none"
    /\ apc = "resample"
    /\ RegIdle
    /\ ColorsIdle
    /\ DatasetIdle
    /\ UploadIdle

\* the station the loop is at
bikepoint == all_bikepoints[Len(resampled_frames) + 1]

\* lines 140-143: one turn of the loop
ResampleBikepoint ==
    /\ apc = "resample"
    /\ Len(resampled_frames) < Len(all_bikepoints)
    /\ ~HasText(Subset(data_to_plot, bikepoint))
    /\ resampled_frames' = Append(resampled_frames,
           WithPlace(interpolate_bikepoint(Subset(data_to_plot, bikepoint)), bikepoint))
    /\ UNCHANGED <<data_to_plot, all_bikepoints, sun_over_london, times, step, color,
                   raised, apc, notAnimate>>

\* line 141, a column holding text: median() raises TypeError and no handler
\* catches it (pandas 2)
ResampleRaises ==
    /\ apc = "resample"
    /\ Len(resampled_frames) < Len(all_bikepoints)
    /\ HasText(Subset(data_to_plot, bikepoint))
    /\ raised' = "TypeError"
    /\ apc' = "raised"
    /\ UNCHANGED <<data_to_plot, all_bikepoints, resampled_frames, sun_over_london, times,
                   step, color, notAnimate>>

\* line 141, a column holding text: median() leaves the column out and goes on
\* (pandas 1)
ResampleDropsColumn ==
    /\ apc = "resample"
    /\ Len(resampled_frames) < Len(all_bikepoints)
    /\ HasText(Subset(data_to_plot, bikepoint))
    /\ resampled_frames' = Append(resampled_frames,
           WithPlace(WithoutBikes(interpolate_bikepoint(Subset(data_to_plot, bikepoint))),
                     bikepoint))
    /\ UNCHANGED <<data_to_plot, all_bikepoints, sun_over_london, times, step, color,
                   raised, apc, notAnimate>>

\* lines 145 and 427: data_to_plot = pd.concat(resampled_frames), then times
ConcatFrames ==
    /\ apc = "resample"
    /\ Len(resampled_frames) = Len(all_bikepoints)
    /\ data_to_plot' = concat(resampled_frames)
    /\ times' = SortedTimes(concat(resampled_frames))
    /\ step' = 0
    /\ apc' = "frames"
    /\ UNCHANGED <<all_bikepoints, resampled_frames, sun_over_london, color, raised,
                   notAnimate>>

\* create_frame(step, ax), called by FuncAnimation for step = 0 .. len(times) - 1
create_frame ==
    /\ apc = "frames"
    /\ step < Len(times)
    /\ LET selected == times[step + 1]
           colors   == get_colors_by_time(selected, sun_over_london)
       IN  /\ colors.raised = "none"
           /\ selected \in DOMAIN colors.map
           /\ color' = colors.map[selected]
    /\ step' = step + 1
    /\ UNCHANGED <<data_to_plot, all_bikepoints, resampled_frames, sun_over_london, times,
                   raised, apc, notAnimate>>

\* create_frame(step, ax) raises: get_colors_by_time fails, or colors has no
\* key selected_time
create_frame_raises ==
    /\ apc = "frames"
    /\ step < Len(times)
    /\ LET selected == times[step + 1]
           colors   == get_colors_by_time(selected, sun_over_london)
       IN  /\ colors.raised # "none" \/ selected \notin DOMAIN colors.map
           /\ raised' = IF colors.raised # "none" THEN colors.raised ELSE "KeyError"
    /\ apc' = "raised"
    /\ UNCHANGED <<data_to_plot, all_bikepoints, resampled_frames, sun_over_london, times,
                   step, color, notAnimate>>

\* animation.save returns after the last frame
SaveAnimation ==
    /\ apc = "frames"
    /\ step = Len(times)
    /\ apc' = "done"
    /\ UNCHANGED <<data_to_plot, all_bikepoints, resampled_frames, sun_over_london, times,
                   step, color, raised, notAnimate>>

AnimateNext ==
    \/ ResampleBikepoint
    \/ ResampleRaises
    \/ ResampleDropsColumn
    \/ ConcatFrames
    \/ create_frame
    \/ create_frame_raises
    \/ SaveAnimation

SpecAnimate == AnimateInit /\ [][AnimateNext]_vars

----------------------------------------------------------------------------
(* kaggle_upload.py                                                        *)
(*                                                                         *)
(* A csv file of data/ is named by the parts that file[5:-4].split("-")    *)
(* yields: <<"2021", "01", "15">> is data/2021-01-15.csv and               *)
(* <<"stations", "2021", "01", "15">> is data/stations-2021-01-15.csv,     *)
(* the two kinds of csv file dataset.py writes.  A date is <<year, month,  *)
(* day>> in integers.                                                      *)

\* the days dataset.py has named files after: a year end, a month end
Days == {<<"2020", "12", "31">>, <<"2021", "01", "01">>, <<"2021", "01", "15">>,
         <<"2021", "02", "01">>}

daily(day) == day
stations(day) == <<"stations">> \o day

CsvNames == {daily(d) : d \in Days} \cup {stations(d) : d \in Days}

\* int(part) of line 34 on the parts that occur
int(part) ==
    CASE part = "2020" -> 2020
      [] part = "2021" -> 2021
      [] part = "01"   -> 1
      [] part = "02"   -> 2
      [] part = "12"   -> 12
      [] part = "15"   -> 15
      [] part = "31"   -> 31

\* line 34-35: date(*[int(part) for part in date_parts])
date(date_parts) == [i \in DOMAIN date_parts |-> int(date_parts[i])]

\* date.__lt__: year, then month, then day
DateLt(a, b) ==
    \/ a[1] < b[1]
    \/ a[1] = b[1] /\ a[2] < b[2]
    \/ a[1] = b[1] /\ a[2] = b[2] /\ a[3] < b[3]

\* mutant: file_date > today
DateGt(a, b) == DateLt(b, a)

\* line 37: file_date >= today
DateGe(a, b) == ~DateLt(a, b)

\* min(dates), max(dates) of line 59
min(ds) == CHOOSE d \in {ds[i] : i \in DOMAIN ds} : \A i \in DOMAIN ds : ~DateLt(ds[i], d)
max(ds) == CHOOSE d \in {ds[i] : i \in DOMAIN ds} : \A i \in DOMAIN ds : ~DateLt(d, ds[i])

\* the order of the names as strings: a digit sorts before "s", and the
\* zero-padded dates sort as the dates do
NameLt(f, g) ==
    \/ Len(f) < Len(g)
    \/ Len(f) = Len(g) /\ DateLt(date(SubSeq(f, Len(f) - 2, Len(f))),
                                 date(SubSeq(g, Len(g) - 2, Len(g))))

\* sorted(glob("data/*.csv"))
RECURSIVE sorted(_)
sorted(S) ==
    IF S = {} THEN <<>>
    ELSE LET f == CHOOSE f \in S : \A g \in S : ~NameLt(g, f)
         IN  <<f>> \o sorted(S \ {f})

\* the days the script is run on: each day of a file and the day after the last
UploadDays == {date(d) : d \in Days} \cup {<<2021, 2, 2>>}

UploadInit ==
    /\ data_dir \in {S \in SUBSET CsvNames : Cardinality(S) <= MaxFiles}
    /\ today \in UploadDays
    /\ files = <<>>
    /\ file_index = 1
    /\ resources = <<>>
    /\ dates = <<>>
    /\ dataset_metadata = <<>>
    /\ update_message = <<>>
    /\ upc = "start"
    /\ RegIdle
    /\ ColorsIdle
    /\ DatasetIdle
    /\ AnimateIdle

\* lines 22-28: the empty lists, and the listing the loop runs over
Glob ==
    /\ upc = "start"
    /\ resources' = <<>>
    /\ dates' = <<>>
    /\ files' = sorted(data_dir)
    /\ file_index' = 1
    /\ upc' = "loop"
    /\ UNCHANGED <<data_dir, today, dataset_metadata, update_message, notUpload>>

InLoop == upc = "loop" /\ file_index <= Len(files)

\* lines 29-32: a name of four parts is a station information file
SkipStations ==
    /\ InLoop
    /\ Len(files[file_index]) = 4
    /\ file_index' = file_index + 1
    /\ UNCHANGED <<data_dir, today, files, resources, dates, dataset_metadata,
                   update_message, upc, notUpload>>

\* lines 34-40: a file of today or later is removed
RemoveFile ==
    /\ InLoop
    /\ Len(files[file_index]) # 4
    /\ DateGe(date(files[file_index]), today)
    /\ data_dir' = data_dir \ {files[file_index]}
    /\ file_index' = file_index + 1
    /\ UNCHANGED <<today, files, resources, dates, dataset_metadata, update_message, upc,
                   notUpload>>

\* lines 34-37, 42-52: a file of an earlier day becomes a resource
AppendResource ==
    /\ InLoop
    /\ Len(files[file_index]) # 4
    /\ ~DateGe(date(files[file_index]), today)
    /\ dates' = Append(dates, date(files[file_index]))
    /\ resources' = Append(resources, files[file_index])
    /\ file_index' = file_index + 1
    /\ UNCHANGED <<data_dir, today, files, dataset_metadata, update_message, upc, notUpload>>

\* lines 54-57: the resources go into data/dataset-metadata.json
WriteMetadata ==
    /\ upc = "loop"
    /\ file_index > Len(files)
    /\ dataset_metadata' = resources
    /\ upc' = "written"
    /\ UNCHANGED <<data_dir, today, files, file_index, resources, dates, update_message,
                   notUpload>>

\* lines 59-61: the update message, api.dataset_create_version
CreateVersion ==
    /\ upc = "written"
    /\ dates # <<>>
    /\ update_message' = <<min(dates), max(dates)>>
    /\ upc' = "published"
    /\ UNCHANGED <<data_dir, today, files, file_index, resources, dates, dataset_metadata,
                   notUpload>>

\* line 59: min(dates) raises ValueError when no file was listed
MinRaises ==
    /\ upc = "written"
    /\ dates = <<>>
    /\ upc' = "raised"
    /\ UNCHANGED <<data_dir, today, files, file_index, resources, dates, dataset_metadata,
                   update_message, notUpload>>

UploadNext ==
    \/ Glob
    \/ SkipStations
    \/ RemoveFile
    \/ AppendResource
    \/ WriteMetadata
    \/ CreateVersion
    \/ MinRaises

SpecUpload == UploadInit /\ [][UploadNext]_vars

----------------------------------------------------------------------------
(* The repository: one of the scripts or calls above *)

Init == RegInit \/ ColorsInit \/ DatasetInit \/ AnimateInit \/ UploadInit

Next == RegNext \/ ColorsNext \/ DatasetNext \/ AnimateNext \/ UploadNext

Spec == Init /\ [][Next]_vars

(***************************************************************************)
(* Properties                                                              *)
(***************************************************************************)

----------------------------------------------------------------------------
(* Properties of interpolate_bikepoint (SpecReg) *)

Returned == rpc = "returned"

\* the raw rows of the argument that fall on the 15-minute slot t
RawAt(t) == {i \in DOMAIN dataframe : dataframe[i].query_time = t}

Populated(t) == RawAt(t) # {}

OutTimes == {resampled[i].query_time : i \in DOMAIN resampled}

\* x = a + j * (b - a) / n, by cross-multiplication over the integers
IsBlend(x, a, b, j, n) ==
    /\ ~IsNaN(x) /\ ~IsNaN(a) /\ ~IsNaN(b)
    /\ n * (x[1] * a[2] - a[1] * x[2]) * (b[2] * a[2])
         = j * (b[1] * a[2] - a[1] * b[2]) * (x[2] * a[2])

\* a <= x <= b or b <= x <= a
IsBetween(x, a, b) ==
    /\ ~IsNaN(x) /\ ~IsNaN(a) /\ ~IsNaN(b)
    /\ \/ RLe(a, x) /\ RLe(x, b)
       \/ RLe(b, x) /\ RLe(x, a)

\* positions ip < iq of two consecutive populated slots of the result
ConsecutivePopulated(ip, iq) ==
    /\ ip < iq
    /\ Populated(resampled[ip].query_time)
    /\ Populated(resampled[iq].query_time)
    /\ \A k \in ip + 1 .. iq - 1 : ~Populated(resampled[k].query_time)

\* C1: the series returned by interpolate_bikepoint has strictly increasing
\* timestamps, no two rows with the same timestamp, and every two consecutive
\* rows exactly 15 minutes apart.
C1_RegularCadence ==
    Returned =>
        /\ \A i \in 1 .. Len(resampled) - 1 :
              /\ resampled[i].query_time < resampled[i + 1].query_time
              /\ resampled[i + 1].query_time - resampled[i].query_time = 15
        /\ \A i, j \in DOMAIN resampled :
              i # j => resampled[i].query_time # resampled[j].query_time

\* an unordered argument with a repeated slot and a gap, regularized
C1_Witness ==
    /\ Returned
    /\ Len(dataframe) = 3
    /\ dataframe[1].query_time > dataframe[2].query_time
    /\ dataframe[2].query_time = dataframe[3].query_time
    /\ dataframe[1].query_time - dataframe[2].query_time >= 45
    /\ Len(resampled) >= 4

\* C3: between two consecutive populated slots G minutes apart (G >= 30) the
\* series has exactly G/15 - 1 rows, and each numeric field of the j-th of them
\* is the linear blend a + j * (b - a) / (G/15) of the values a and b of the
\* two populated slots, which are the observed values where a slot holds one
\* observation; empty_docks 5 and 3 of 10 docks, 30 minutes apart, give a row
\* with empty_docks 4 and proportion 0.6 in between.
C3_LinearBlend ==
    Returned =>
        /\ \A ip, iq \in DOMAIN resampled :
              ConsecutivePopulated(ip, iq) =>
                 LET a == resampled[ip]
                     b == resampled[iq]
                     G == b.query_time - a.query_time
                     between == {k \in DOMAIN resampled :
                                    /\ a.query_time < resampled[k].query_time
                                    /\ resampled[k].query_time < b.query_time}
                 IN  /\ G % 15 = 0
                     /\ Cardinality(between) = (G + 14) \div 15 - 1
                     /\ \A j \in 1 .. (G \div 15) - 1 :
                           /\ resampled[ip + j].query_time = a.query_time + 15 * j
                           /\ \A f \in NumericFields :
                                 IsBlend(resampled[ip + j][f], a[f], b[f], j, G \div 15)
        /\ \A k \in DOMAIN resampled :
              \A i \in RawAt(resampled[k].query_time) :
                 RawAt(resampled[k].query_time) = {i} =>
                    \A f \in NumericFields : resampled[k][f] = dataframe[i][f]
        /\ \A t \in {0, 15} :
              dataframe = <<Row(t, "BikePoints_1", 5, 5, 10), Row(t + 30, "BikePoints_1", 7, 3, 10)>>
                 => /\ Len(resampled) = 3
                    /\ resampled[2].query_time = t + 15
                    /\ resampled[2].empty_docks = <<4, 1>>
                    /\ resampled[2].proportion = <<3, 5>>

\* two single observations 45 minutes apart with different values, and the two
\* rows blended between them
C3_Witness ==
    /\ Returned
    /\ Len(dataframe) = 2
    /\ dataframe[2].query_time - dataframe[1].query_time = 45
    /\ dataframe[1].proportion # dataframe[2].proportion
    /\ Len(resampled) = 4
    /\ ConsecutivePopulated(1, 4)

\* C7: the rows are exactly the 15-minute slots from the slot of the earliest
\* observation through the slot of the latest one: none before or after, none
\* without a value, the first and the last holding observed values (the
\* observation itself where the slot has one); one observation gives one row
\* with its timestamp and values.
C7_SpanOfObservations ==
    (Returned /\ dataframe # <<>>) =>
        LET first == IntMin(Times(dataframe))
            last  == IntMax(Times(dataframe))
            n     == Len(resampled)
        IN  /\ OutTimes = {t \in first .. last : (t - first) % 15 = 0}
            /\ n = Cardinality(OutTimes)
            /\ resampled[1].query_time = first
            /\ resampled[n].query_time = last
            /\ \A k \in DOMAIN resampled : \A f \in NumericFields : ~IsNaN(resampled[k][f])
            /\ \A k \in {1, n} : \A f \in NumericFields :
                  /\ \E i \in RawAt(resampled[k].query_time), j \in RawAt(resampled[k].query_time) :
                        /\ RLe(dataframe[i][f], resampled[k][f])
                        /\ RLe(resampled[k][f], dataframe[j][f])
                  /\ \A i \in RawAt(resampled[k].query_time) :
                        RawAt(resampled[k].query_time) = {i} => resampled[k][f] = dataframe[i][f]
            /\ Len(dataframe) = 1 =>
                  /\ n = 1
                  /\ resampled[1].query_time = dataframe[1].query_time
                  /\ \A f \in NumericFields : resampled[1][f] = dataframe[1][f]

\* the single observation of the scenario: docks 5, empty 0, ratio 1
C7_Witness ==
    /\ Returned
    /\ dataframe = <<Row(45, "BikePoints_1", 5, 0, 5)>>
    /\ Len(resampled) = 1
    /\ resampled[1].proportion = <<1, 1>>

\* C8: the proportion of every interpolated row lies between the proportions of
\* the nearest populated slots before and after it, inclusive, and so within
\* the range of the ratios observed at those two slots.
C8_NoOvershoot ==
    Returned =>
        \A ip, iq \in DOMAIN resampled :
           ConsecutivePopulated(ip, iq) =>
              \A k \in ip + 1 .. iq - 1 :
                 /\ IsBetween(resampled[k].proportion,
                              resampled[ip].proportion, resampled[iq].proportion)
                 /\ \E i, j \in RawAt(resampled[ip].query_time) \cup RawAt(resampled[iq].query_time) :
                       /\ RLe(dataframe[i].proportion, resampled[k].proportion)
                       /\ RLe(resampled[k].proportion, dataframe[j].proportion)

\* two interpolated rows between a ratio outside [0, 1] and a ratio inside it
C8_Witness ==
    /\ Returned
    /\ Len(resampled) = 4
    /\ ConsecutivePopulated(1, 4)
    /\ RLt(resampled[1].proportion, <<0, 1>>)
    /\ RLt(<<0, 1>>, resampled[4].proportion)
    /\ RLt(resampled[1].proportion, resampled[2].proportion)
    /\ RLt(resampled[2].proportion, resampled[3].proportion)
    /\ RLt(resampled[3].proportion, resampled[4].proportion)

----------------------------------------------------------------------------
(* Properties of get_colors_by_time (SpecColors) *)

ColorsReturned == cpc = "returned"

DateOf(t) == (t \div 1440) * 1440

\* the seven boundaries of the call are strictly increasing
StrictlyIncreasingBoundaries ==
    LET b == get_sun_intervals(sun_events)
    IN  \A i \in 1 .. Len(b) - 1 : b[i] < b[i + 1]

\* C2: for strictly increasing boundaries get_colors_by_time returns, without
\* failing, a map of exactly 97 entries keyed by day start + 15 * k minutes for
\* k = 0 .. 96.
C2_Always97Entries ==
    (ColorsReturned /\ StrictlyIncreasingBoundaries) =>
        /\ today_gradients.raised = "none"
        /\ DOMAIN today_gradients.map = {DateOf(selected_time) + 15 * k : k \in 0 .. 96}
        /\ Cardinality(DOMAIN today_gradients.map) = 97

\* C9 as stated: the first entry of a returned gradient map is the "night"
\* reference colour.
C9_FirstIsNight ==
    (ColorsReturned /\ today_gradients.raised = "none") =>
        today_gradients.map[DateOf(selected_time)] = 127

\* C9, amended: the first entry of a returned gradient map (the key at 00:00 of
\* the date) is the "darkness" reference colour, the colour the palette starts
\* from.
C9_FirstIsDarkness ==
    (ColorsReturned /\ today_gradients.raised = "none") =>
        /\ DateOf(selected_time) \in DOMAIN today_gradients.map
        /\ today_gradients.map[DateOf(selected_time)] = 93

\* a map returned for an instant in the middle of the second day
C9_Witness ==
    /\ ColorsReturned
    /\ today_gradients.raised = "none"
    /\ selected_time = 1440 + 1425
    /\ today_gradients.map[1440] = 93
    /\ today_gradients.map[1440 + 720] > 127

----------------------------------------------------------------------------
(* Properties of dataset.py (SpecDataset) *)

CountKeys == {"NbBikes", "NbEmptyDocks", "NbDocks"}

\* the positions of the properties of a place that carry the key
Carrying(place, key) ==
    {i \in DOMAIN place.additionalProperties : place.additionalProperties[i].key = key}

\* exactly one property of the place carries the key, and its value is a number
ReadableCount(place, key) ==
    /\ Cardinality(Carrying(place, key)) = 1
    /\ \A i \in Carrying(place, key) :
          place.additionalProperties[i].value \in {"3", "7", "10"}

Answered == dpc \in {"fetched", "written", "done", "failed"} /\ bike_points # <<>>

\* the rows the current run has written to the daily file
RowsOfRun == SelectSeq(csv_rows, LAMBDA r : ~r.header /\ r.query_time = execution_time)

\* C5 as stated: in a polling cycle where one station lacks an expected
\* property key, the run still writes the rows of all other stations of that
\* cycle to the daily file.
C5_OtherStationsRecorded ==
    (dpc \in {"done", "failed"} /\ bike_points # <<>>
       /\ \E i \in DOMAIN bike_points : \E key \in CountKeys :
             Carrying(bike_points[i], key) = {}) =>
        \A j \in DOMAIN bike_points :
           (\A key \in CountKeys : ReadableCount(bike_points[j], key)) =>
              \E k \in DOMAIN RowsOfRun : RowsOfRun[k].place_id = bike_points[j].id

\* C6: a run writes rows only when, for every station, each of NbBikes,
\* NbEmptyDocks and NbDocks is carried by exactly one property with a numeric
\* value, and then each row holds those three values as integers; a key that is
\* absent, carried twice or not numeric makes get_number fail and the run with
\* it.
C6_ThreeCountsOrFailure ==
    /\ (Answered /\ dpc \in {"written", "done"}) =>
          /\ \A i \in DOMAIN bike_points : \A key \in CountKeys :
                ReadableCount(bike_points[i], key)
          /\ Len(RowsOfRun) = Len(bike_points)
          /\ \A i \in DOMAIN bike_points :
                /\ RowsOfRun[i].place_id = bike_points[i].id
                /\ RowsOfRun[i].bikes = 3
                /\ RowsOfRun[i].empty_docks = 7
                /\ RowsOfRun[i].docks = 10
    /\ (Answered /\ dpc # "fetched"
          /\ \E i \in DOMAIN bike_points : \E key \in CountKeys :
                ~ReadableCount(bike_points[i], key)) =>
          /\ dpc = "failed"
          /\ RowsOfRun = <<>>

\* a run that failed on a station whose NbDocks is carried by two properties
C6_Witness ==
    /\ dpc = "failed"
    /\ Len(bike_points) = 2
    /\ \A key \in CountKeys : ReadableCount(bike_points[1], key)
    /\ Cardinality(Carrying(bike_points[2], "NbDocks")) = 2
    /\ ReadableCount(bike_points[2], "NbBikes")
    /\ ReadableCount(bike_points[2], "NbEmptyDocks")

----------------------------------------------------------------------------
(* Properties of the resampling loop and the frames (SpecAnimate) *)

\* the rows of data_to_plot of the k-th station of the loop
RowsOfStation(k) ==
    {i \in DOMAIN data_to_plot : data_to_plot[i].place_id = all_bikepoints[k]}

\* a field of the k-th station is not a number
NotNumeric(k) == \E i \in RowsOfStation(k) : data_to_plot[i].bikes = <<0, -1>>

\* C4 as stated: when regularizing one station fails on a field that is not a
\* number, the run continues, that station's series is dropped, and every other
\* station is regularized and present in the output.
C4_FailureConfinedToStation ==
    (/\ apc \in {"resample", "raised"}
     /\ raised \in {"none", "TypeError"}
     /\ \E k \in DOMAIN all_bikepoints : ~NotNumeric(k)) =>
        /\ raised = "none"
        /\ \A k \in DOMAIN resampled_frames :
              IF NotNumeric(k)
              THEN resampled_frames[k] = <<>>
              ELSE /\ resampled_frames[k] # <<>>
                   /\ \A i \in DOMAIN resampled_frames[k] :
                         resampled_frames[k][i].place_id = all_bikepoints[k]

\* C10 as stated: for every instant of times, the gradient map computed by
\* get_colors_by_time for that instant has the instant as a key, so the lookup
\* colors[selected_time] of create_frame fails for no frame.
C10_FrameColourAddressable ==
    (/\ apc \in {"frames", "done", "raised"}
     /\ raised # "TypeError"
     /\ \A i \in DOMAIN data_to_plot : data_to_plot[i].bikes # <<0, 0>>) =>
        /\ raised = "none"
        /\ \A k \in 1 .. step :
              /\ get_colors_by_time(times[k], sun_over_london).raised = "none"
              /\ times[k] \in DOMAIN get_colors_by_time(times[k], sun_over_london).map


----------------------------------------------------------------------------
(* Properties of the resampling step of interpolate_bikepoint (SpecReg) *)

\* after line 127, before line 128
Medianed == rpc = "resampled"

\* m is the median of the cells of one field over the raw rows on slot t, stated
\* by counting: lo is the cell of rank ceil(n/2) and hi the cell of rank
\* floor(n/2) + 1 in nondecreasing order (the same cell when n is odd), and m
\* is their midpoint.
IsMedianAt(m, t, field) ==
    LET I       == RawAt(t)
        n       == Cardinality(I)
        val(i)  == dataframe[i][field]
        AtMost(x)  == Cardinality({i \in I : RLe(val(i), x)})
        AtLeast(x) == Cardinality({i \in I : RLe(x, val(i))})
    IN  /\ ~IsNaN(m)
        /\ \E il, ih \in I :
              LET lo == val(il)
                  hi == val(ih)
              IN  /\ 2 * AtMost(lo) >= n /\ 2 * AtLeast(lo) >= n + 2 - (n % 2)
                  /\ 2 * AtMost(hi) >= n + 2 - (n % 2) /\ 2 * AtLeast(hi) >= n
                  /\ RLe(lo, hi)
                  /\ 2 * m[1] * lo[2] * hi[2] = (lo[1] * hi[2] + hi[1] * lo[2]) * m[2]

RowsAt(t) == {i \in DOMAIN resampled : resampled[i].query_time = t}

\* C11: a slot on which raw observations of the station fall has exactly one
\* row in the regularized series, and each numeric field of that row is the
\* median of the field over those observations; a slot of the series on which
\* no observation falls has every numeric field unpopulated (NaN) after the
\* resampling and before the interpolation.
C11_MedianPerSlot ==
    /\ (Medianed \/ Returned) =>
          \A t \in Times(dataframe) :
              /\ Cardinality(RowsAt(t)) = 1
              /\ \A i \in RowsAt(t) : \A f \in NumericFields :
                    IsMedianAt(resampled[i][f], t, f)
    /\ Medianed =>
          \A i \in DOMAIN resampled :
              ~Populated(resampled[i].query_time) =>
                  \A f \in NumericFields : IsNaN(resampled[i][f])

\* two different readings on one slot and a later reading leaving a slot empty,
\* after the resampling: the shared slot holds the midpoint 6 of 5 and 7 bikes
C11_Witness ==
    /\ Medianed
    /\ Len(dataframe) = 3
    /\ Cardinality(RawAt(0)) = 2
    /\ \E i, j \in RawAt(0) : dataframe[i].bikes = Whole(5) /\ dataframe[j].bikes = Whole(7)
    /\ Populated(2 * Cadence)
    /\ Len(resampled) = 3
    /\ resampled[1].bikes = Whole(6)
    /\ IsNaN(resampled[2].bikes)


----------------------------------------------------------------------------
(* Properties of the daily file over several runs (SpecDataset) *)

\* the positions of the header rows of the daily file
HeaderRows == {i \in DOMAIN csv_rows : csv_rows[i].header}

\* C12: once a run has opened the daily file, whatever runs of the same day
\* have succeeded or failed since, the file holds exactly one header row, the
\* header row is its first row, and every other row is a station row stamped
\* with the time of one of the runs so far, the rows of an earlier run before
\* the rows of a later run.
C12_OneHeaderFirst ==
    /\ ~csv_exists => csv_rows = <<>>
    /\ csv_exists =>
          /\ csv_rows # <<>>
          /\ csv_rows[1] = headers
          /\ HeaderRows = {1}
          /\ \A i \in 2 .. Len(csv_rows) :
                /\ ~csv_rows[i].header
                /\ csv_rows[i].query_time \in 1 .. execution_time
                /\ csv_rows[i].place_id \in {PlaceIds[k] : k \in DOMAIN PlaceIds}
          /\ \A i, j \in 2 .. Len(csv_rows) :
                i < j => csv_rows[i].query_time <= csv_rows[j].query_time

\* the first run of the day failed after it had created the file, and the
\* second run has appended its station rows below the header of the first
C12_Witness ==
    /\ execution_time = 2
    /\ dpc = "done"
    /\ ~information_file
    /\ Len(csv_rows) >= 3
    /\ \A i \in 2 .. Len(csv_rows) : csv_rows[i].query_time = 2


----------------------------------------------------------------------------
(* Properties of the upload script (SpecUpload) *)

\* the script has ended, by publishing a version or by the failure of line 59
Uploaded == upc \in {"published", "raised"}

IsStationsFile(f) == f[1] = "stations"

\* the day count of the date a daily file is named after, and of a date
Ordinal(d) == (d[1] * 12 + d[2]) * 31 + d[3]
OrdinalOfName(f) ==
    LET n(part) == CHOOSE v \in 1 .. 2021 : \E digits \in {<<"2020", 2020>>, <<"2021", 2021>>,
                        <<"01", 1>>, <<"02", 2>>, <<"12", 12>>, <<"15", 15>>, <<"31", 31>>} :
                        digits[1] = part /\ digits[2] = v
    IN  (n(f[1]) * 12 + n(f[2])) * 31 + n(f[3])

\* the positions at which the published metadata lists the file
ListedAt(f) == {i \in DOMAIN dataset_metadata : dataset_metadata[i] = f}

\* C13: when the upload script has ended, of the csv files that were in data/
\* when it started, every daily file dated today or later is gone from the
\* directory and from the resource list written for publication, every daily
\* file dated before today is still in the directory and listed exactly once,
\* and every station information file is still in the directory and not listed.
C13_RemovedKeptListed ==
    Uploaded =>
        \A k \in DOMAIN files :
            LET f == files[k]
            IN  IF IsStationsFile(f)
                THEN f \in data_dir /\ ListedAt(f) = {}
                ELSE IF OrdinalOfName(f) >= Ordinal(today)
                THEN f \notin data_dir /\ ListedAt(f) = {}
                ELSE f \in data_dir /\ Cardinality(ListedAt(f)) = 1

\* a published version on 15 January 2021: the file of that day removed, the
\* file of an earlier day listed, a station information file left alone
C13_Witness ==
    /\ upc = "published"
    /\ today = <<2021, 1, 15>>
    /\ \E k \in DOMAIN files : files[k] = <<"2021", "01", "15">>
    /\ <<"2021", "01", "15">> \notin data_dir
    /\ dataset_metadata = << <<"2021", "01", "01">> >>
    /\ <<"stations", "2021", "01", "15">> \in data_dir

====
